---- MODULE Spec2Model ----
(***************************************************************************)
(* A model of lcmgr: the event sources (SpotListener, LifecycleListener),  *)
(* the AWS client calls they make, the ServiceHandler with its heartbeat   *)
(* goroutine, and cmd main with its dispatch loop and errgroup.            *)
(*                                                                         *)
(* Three families of specifications share the variables:                   *)
(*   Spec / LiveSpec / FairSpec  the program, as main() runs it;           *)
(*   ListenSpec / ListenFairSpec the exported Listen methods run against   *)
(*                               any receiver of their Notices channel and *)
(*                               any canceller of their context;           *)
(*   HandleSpec                  the exported Handle method called with    *)
(*                               any Notice.                               *)
(***************************************************************************)
EXTENDS Naturals, Sequences, FiniteSets

\* ---------------------------------------------------------------- bounds

\* Messages ever placed on the lifecycle queues.
MaxMsgs == 1
\* Distinct spot termination times the metadata service may report.
MaxTimes == 1
\* Handle calls made.
MaxHandles == 1
\* Lifecycle hooks the auto scaling group has.
MaxHooks == 2

\* ------------------------------------------------------------- constants

LaunchLifecycleAction == "autoscaling:EC2_INSTANCE_LAUNCHING"
TerminationLifecycleAction == "autoscaling:EC2_INSTANCE_TERMINATING"
\* A LifecycleTransition value that is neither of the two above.
OtherTransition == "autoscaling:OTHER"
Transitions == {LaunchLifecycleAction, TerminationLifecycleAction, OtherTransition}

\* ReceiveMessageInput.MaxNumberOfMessages
MaxNumberOfMessages == 10

\* This instance's identity and another instance's.
Me == "i-self"
InstanceIDs == {Me, "i-other"}

\* The sources: the SpotListener, and the LifecycleListener of one queue, the
\* notification target of a launch hook.
SpotSource == "spot"
LaunchQueue == "launch-q"
QueueSources == {LaunchQueue}
Sources == {SpotSource} \cup QueueSources

\* Queue.Action of the queue.
QueueAction(q) == LaunchLifecycleAction

\* --------------------------------------------------------------- notices

\* The nil Notice interface value.
Nil == [type |-> "nil", hook |-> "", token |-> 0, time |-> 0]

NewSpotNotice(terminationTime) ==
    [type |-> "spot", hook |-> "", token |-> 0, time |-> terminationTime]

NewLaunchNotice(hook, token) ==
    [type |-> "launch", hook |-> hook, token |-> token, time |-> 0]

NewTerminationNotice(hook, token) ==
    [type |-> "termination", hook |-> hook, token |-> token, time |-> 0]

IsLifecycle(n) == n.type \in {"launch", "termination"}

VARIABLES
    \* --- cmd main
    mpc,          \* where main() is
    hooks,        \* the lifecycle hooks DescribeLifecycleHooks reports
    sigBuf,       \* os.Interrupt signals buffered in `signals` (capacity 1)
    interrupted,  \* an interrupt has been delivered to the process
    ctxDone,      \* the shared context is cancelled
    \* --- awsClient
    instanceIDCached,  \* client.InstanceID != ""
    asgCached,         \* client.AutoScalingGroupName != ""
    \* --- listeners
    listeners,    \* the sources whose Listen has been started
    lpc,          \* per source: "idle", "select" or "returned"
    lnotice,      \* per source: Listen's local `notice`
    lchan,        \* per source: Listen's local `notices` is listener.Notices
    lresult,      \* per source: what Listen returned
    ldelivered,   \* per source: the value in `notice` was accepted, no poll since
    ticks,        \* parity of the number of ticks the SpotListener took
    receiving,    \* a goroutine is blocked receiving from the Notices channel
    rnotice,      \* the Notice last received from the channel
    \* --- the sources' environment
    spotTime,     \* metadata spot/termination-time (0: not found)
    msgs,         \* every message ever enqueued, by id
    queue,        \* per queue: ids of the messages on it
    deleted,      \* ids of the messages this client deleted
    emitted,      \* per message id: notices built from it and sent (0, 1, many)
    \* --- ServiceHandler
    hpc,          \* where the current Handle call is
    hnotice,      \* per call: its Notice
    hcall,        \* its number (0: none yet)
    hcancelled,   \* per call: cancel() of the derived context was called
    herr,         \* the error f returned in the current call
    hcerr,        \* the error CompleteLifecycleAction returned in the current call
    hresult,      \* what the last finished Handle returned
    hb,           \* per call: its heartbeat goroutine, "none", "running", "stopped"
    actions,      \* per call: the service actions run, each with how it ended
    beats,        \* per call: SendHeartbeat calls
    lateBeats,    \* per call: SendHeartbeat calls made after CompleteLifecycleAction
    completes,    \* per call: CompleteLifecycleAction calls
    requests      \* per call: CompleteLifecycleAction requests sent to the API

mainVars == <<mpc, hooks, sigBuf, interrupted, ctxDone>>
clientVars == <<instanceIDCached, asgCached>>
listenVars == <<listeners, lpc, lnotice, lchan, lresult, ldelivered, ticks>>
chanVars == <<receiving, rnotice>>
envVars == <<spotTime, msgs, queue, deleted, emitted>>
handleVars == <<hpc, hnotice, hcall, hcancelled, herr, hcerr, hresult, hb,
                actions, beats, lateBeats, completes, requests>>
vars == <<mainVars, clientVars, listenVars, chanVars, envVars, handleVars>>

\* A count kept as 0, 1 or 2, where 2 stands for "more than once".
Bump(n) == IF n >= 2 THEN 2 ELSE n + 1

\* ------------------------------------------------------------- awsClient

\* GetInstanceID: the cached identity, else the metadata lookup (idOK: it succeeds).
GetInstanceID(idOK) == instanceIDCached \/ idOK

\* GetAutoScalingGroupName: the cached name, else the lookups (asgOK: they succeed).
GetAutoScalingGroupName(asgOK) == asgCached \/ asgOK

\* GetSpotNotice: [notice, err]. fault is what goes wrong with the metadata
\* request: "none", "error" (any failure but a 404) or "malformed" (a
\* termination time that does not parse).
GetSpotNotice(fault) ==
    IF fault = "error" THEN [notice |-> Nil, err |-> TRUE]
    ELSE IF spotTime = 0 THEN [notice |-> Nil, err |-> FALSE]
    ELSE IF fault = "malformed" THEN [notice |-> Nil, err |-> TRUE]
    ELSE [notice |-> NewSpotNotice(spotTime), err |-> FALSE]

\* LifecycleNoticeOf, the variant taken from the Action of the queue the
\* message came from.
LifecycleNoticeByQueueAction(m) ==
    IF QueueAction(m.queue) = LaunchLifecycleAction
    THEN NewLaunchNotice(m.hook, m.token)
    ELSE NewTerminationNotice(m.hook, m.token)

\* GetLifecycleNotice: the switch on m.LifecycleTransition, which has no
\* default, so that `notice` stays nil for any other transition.
LifecycleNoticeOf(m) ==
    IF m.transition = LaunchLifecycleAction
    THEN NewLaunchNotice(m.hook, m.token)
    ELSE IF m.transition = TerminationLifecycleAction
    THEN NewTerminationNotice(m.hook, m.token)
    ELSE Nil

\* The loop of GetLifecycleNotice over output.Messages, from message i on:
\* [notice, err, del], del the id of the message deleted (0: none). delOK:
\* DeleteMessage succeeds.
RECURSIVE ScanMessages(_, _, _)
ScanMessages(batch, i, delOK) ==
    IF i > Len(batch) THEN [notice |-> Nil, err |-> FALSE, del |-> 0]
    ELSE LET m == msgs[batch[i]] IN
         IF ~m.parsable THEN ScanMessages(batch, i + 1, delOK)
         ELSE IF m.instance # Me THEN ScanMessages(batch, i + 1, delOK)
         ELSE IF ~delOK THEN [notice |-> Nil, err |-> TRUE, del |-> 0]
         ELSE [notice |-> LifecycleNoticeOf(m), err |-> FALSE, del |-> batch[i]]

\* GetLifecycleNotice: [notice, err, del]. idOK: GetInstanceID succeeds;
\* recvOK: ReceiveMessage succeeds and returns batch.
GetLifecycleNotice(idOK, recvOK, batch, delOK) ==
    IF ~GetInstanceID(idOK) THEN [notice |-> Nil, err |-> TRUE, del |-> 0]
    ELSE IF ~recvOK THEN [notice |-> Nil, err |-> TRUE, del |-> 0]
    ELSE ScanMessages(batch, 1, delOK)

\* The batches ReceiveMessage may return from a queue holding the ids in S:
\* up to MaxNumberOfMessages of them, in any order.
Batches(S) ==
    {b \in UNION {[1..k -> S] : k \in 0..Cardinality(S)} :
        /\ Len(b) <= MaxNumberOfMessages
        /\ \A i, j \in 1..Len(b) : i # j => b[i] # b[j]}

\* ------------------------------------------------------------- listeners

\* The send case of Listen's select is enabled: `notices` is the shared
\* channel, as it was left or as the top of the loop sets it.
ChanEnabled(s) == lchan[s] \/ lnotice[s] # Nil

\* What the receiver of the Notices channel gets when source s sends.
Deliver(s) ==
    /\ receiving' = FALSE
    /\ rnotice' = lnotice[s]
    /\ mpc' = IF mpc = "select" THEN "handle" ELSE mpc
    /\ emitted' = IF IsLifecycle(lnotice[s])
                  THEN [emitted EXCEPT ![lnotice[s].token] = Bump(@)]
                  ELSE emitted

\* Listen: case notices <- notice
ListenSend(s) ==
    /\ lpc[s] = "select"
    /\ ChanEnabled(s)
    /\ receiving
    /\ Deliver(s)
    /\ lchan' = [lchan EXCEPT ![s] = FALSE]
    /\ ldelivered' = [ldelivered EXCEPT ![s] = TRUE]
    /\ UNCHANGED <<listeners, lpc, lnotice, lresult, ticks>>
    /\ UNCHANGED <<hooks, sigBuf, interrupted, ctxDone, clientVars, spotTime, msgs, queue,
                   deleted, handleVars>>

\* ListenDone, returning ctx.Err() for nil.
ListenDoneCtxErr(s) ==
    /\ lpc[s] = "select"
    /\ ctxDone
    /\ lpc' = [lpc EXCEPT ![s] = "returned"]
    /\ lresult' = [lresult EXCEPT ![s] = "context canceled"]
    /\ lchan' = [lchan EXCEPT ![s] = ChanEnabled(s)]
    /\ UNCHANGED <<listeners, lnotice, ldelivered, ticks>>
    /\ UNCHANGED <<mainVars, clientVars, chanVars, envVars, handleVars>>

\* Listen: case <-ctx.Done()
ListenDone(s) ==
    /\ lpc[s] = "select"
    /\ ctxDone
    /\ lpc' = [lpc EXCEPT ![s] = "returned"]
    /\ lresult' = [lresult EXCEPT ![s] = "nil"]
    /\ lchan' = [lchan EXCEPT ![s] = ChanEnabled(s)]
    /\ UNCHANGED <<listeners, lnotice, ldelivered, ticks>>
    /\ UNCHANGED <<mainVars, clientVars, chanVars, envVars, handleVars>>

\* What a poll that returned r leaves in Listen's locals.
Polled(s, r) ==
    /\ lnotice' = [lnotice EXCEPT ![s] = r.notice]
    /\ lchan' = [lchan EXCEPT ![s] = ChanEnabled(s)]
    /\ ldelivered' = [ldelivered EXCEPT ![s] = FALSE]
    /\ UNCHANGED <<listeners, lpc, lresult>>

\* SpotListener.Listen: case <-ticker.C, the poll going wrong as fault says.
\* A poll that fails is logged, and `notice` takes the nil it returned.
SpotPoll(fault) ==
    /\ lpc[SpotSource] = "select"
    /\ Polled(SpotSource, GetSpotNotice(fault))
    /\ ticks' = 1 - ticks
    /\ UNCHANGED <<mainVars, clientVars, chanVars, envVars, handleVars>>

\* SpotListener.Listen: case <-ticker.C
SpotListenTick == \E fault \in {"none", "error", "malformed"} : SpotPoll(fault)

\* LifecycleListener.Listen: default, the poll's calls succeeding as idOK,
\* recvOK and delOK say and ReceiveMessage returning batch.
LifecyclePoll(q, idOK, recvOK, delOK, batch) ==
    /\ lpc[q] = "select"
    /\ ~ctxDone
    /\ ~(ChanEnabled(q) /\ receiving)
    /\ LET r == GetLifecycleNotice(idOK, recvOK, batch, delOK) IN
       /\ Polled(q, r)
       /\ UNCHANGED ticks
       /\ instanceIDCached' = GetInstanceID(idOK)
       /\ queue' = [queue EXCEPT ![q] = @ \ {r.del}]
       /\ deleted' = IF r.del = 0 THEN deleted ELSE deleted \cup {r.del}
    /\ UNCHANGED <<mainVars, asgCached, chanVars, spotTime, msgs, emitted, handleVars>>

\* LifecycleListener.Listen: default, taken when no other case can proceed.
LifecycleListenDefault(q) ==
    \E idOK \in BOOLEAN, recvOK \in BOOLEAN, delOK \in BOOLEAN,
       batch \in Batches(queue[q]) :
        LifecyclePoll(q, idOK, recvOK, delOK, batch)

\* ------------------------------------------- the listeners' environment

\* The instance is marked for spot termination at time t.
SpotAnnounced ==
    /\ spotTime = 0
    /\ \E t \in 1..MaxTimes : spotTime' = t
    /\ UNCHANGED <<mainVars, clientVars, listenVars, chanVars, msgs, queue, deleted,
                   emitted, handleVars>>

\* A message arrives on queue q. Its token is its id.
Enqueue(q) ==
    /\ Len(msgs) < MaxMsgs
    /\ \E inst \in InstanceIDs, tr \in Transitions, ok \in BOOLEAN :
           /\ ~ok => (inst = Me /\ tr = QueueAction(q))
           /\ msgs' = Append(msgs, [queue |-> q, instance |-> inst, transition |-> tr,
                                    parsable |-> ok, hook |-> q, token |-> Len(msgs) + 1])
    /\ queue' = [queue EXCEPT ![q] = @ \cup {Len(msgs) + 1}]
    /\ UNCHANGED <<mainVars, clientVars, listenVars, chanVars, spotTime, deleted, emitted,
                   handleVars>>

\* Some goroutine starts to receive from the Notices channel.
ReceiverWaits ==
    /\ ~receiving
    /\ receiving' = TRUE
    /\ UNCHANGED <<mainVars, clientVars, listenVars, rnotice, envVars, handleVars>>

\* The context passed to Listen is cancelled.
Cancel ==
    /\ ~ctxDone
    /\ ctxDone' = TRUE
    /\ UNCHANGED <<mpc, hooks, sigBuf, interrupted, clientVars, listenVars, chanVars, envVars,
                   handleVars>>

\* -------------------------------------------------------- ServiceHandler

Calls == 1..MaxHandles

\* The context ForLifecycleAction derives for call c is done: its own cancel()
\* was called, or its parent is cancelled.
HandlerCtxDone(c) == hcancelled[c] \/ ctxDone

\* How a run of the systemd job can end: dbus.New fails, ListUnitsByNames
\* fails, the unit is not listed once, StartUnit/StopUnit fails, the job id is
\* 0, the job's result is not "done", or it is "done".
ServiceOutcomes == {"dbus", "list", "units", "job", "n0", "failed", "done"}

\* WaitForServiceStart: the error returned (TRUE: an error).
WaitForServiceStart(outcome) == outcome \in {"dbus", "list", "units", "job"}

\* WaitForServiceStop: the error returned (TRUE: an error).
WaitForServiceStop(outcome) == outcome \in {"dbus", "list", "units", "job"}

\* awsClient.CompleteLifecycleAction: [sent, req, err]; apiOK: the API call succeeds.
CompleteLifecycleAction(n, idOK, asgOK, apiOK) ==
    IF ~IsLifecycle(n) THEN [sent |-> FALSE, req |-> <<>>, err |-> TRUE]
    ELSE IF ~GetInstanceID(idOK) THEN [sent |-> FALSE, req |-> <<>>, err |-> TRUE]
    ELSE IF ~GetAutoScalingGroupName(asgOK) THEN [sent |-> FALSE, req |-> <<>>, err |-> TRUE]
    ELSE [sent |-> TRUE,
          req |-> <<[hook |-> n.hook, token |-> n.token, result |-> "CONTINUE"]>>,
          err |-> ~apiOK]

\* Handle, with a SpotNotice taken through ForLifecycleAction too.
HandleSpotAsLifecycle(n) ==
    /\ hpc \in {"idle", "returned"}
    /\ hcall < MaxHandles
    /\ hcall' = hcall + 1
    /\ hnotice' = [hnotice EXCEPT ![hcall + 1] = n]
    /\ herr' = "nil"
    /\ hcerr' = "nil"
    /\ IF n.type = "spot" \/ IsLifecycle(n)
       THEN /\ hpc' = "f"
            /\ hb' = [hb EXCEPT ![hcall + 1] = "running"]
            /\ UNCHANGED hresult
       ELSE /\ hpc' = "returned"
            /\ hresult' = "unexpected notice type"
            /\ UNCHANGED hb
    /\ UNCHANGED <<hcancelled, actions, beats, lateBeats, completes, requests>>

\* Handle(ctx, n): the type switch, and for a lifecycle notice the start of
\* ForLifecycleAction: the derived context, the ticker, the heartbeat goroutine.
Handle(n) ==
    /\ hpc \in {"idle", "returned"}
    /\ hcall < MaxHandles
    /\ hcall' = hcall + 1
    /\ hnotice' = [hnotice EXCEPT ![hcall + 1] = n]
    /\ herr' = "nil"
    /\ hcerr' = "nil"
    /\ IF n.type = "spot"
       THEN hpc' = "spot" /\ UNCHANGED <<hb, hresult>>
       ELSE IF IsLifecycle(n)
       THEN /\ hpc' = "f"
            /\ hb' = [hb EXCEPT ![hcall + 1] = "running"]
            /\ UNCHANGED hresult
       ELSE /\ hpc' = "returned"
            /\ hresult' = "unexpected notice type"
            /\ UNCHANGED hb
    /\ UNCHANGED <<hcancelled, actions, beats, lateBeats, completes, requests>>

\* Handle of a SpotNotice: return handler.WaitForServiceStop(ctx, notice)
HandleSpot ==
    /\ hpc = "spot"
    /\ \E outcome \in ServiceOutcomes :
           /\ hresult' = IF WaitForServiceStop(outcome) THEN "action error" ELSE "nil"
           /\ actions' = [actions EXCEPT ![hcall] =
                              Append(@, [action |-> "stop", outcome |-> outcome])]
    /\ hpc' = "returned"
    /\ UNCHANGED <<hnotice, hcall, hcancelled, herr, hcerr, hb, beats, lateBeats,
                   completes, requests>>
    /\ UNCHANGED <<mainVars, clientVars, listenVars, chanVars, envVars>>

\* ForLifecycleActionRun, f being WaitForServiceStart for every notice.
ForLifecycleActionRunStart ==
    /\ hpc = "f"
    /\ \E outcome \in ServiceOutcomes :
           /\ herr' = IF WaitForServiceStart(outcome) THEN "action error" ELSE "nil"
           /\ actions' = [actions EXCEPT ![hcall] =
                              Append(@, [action |-> "start", outcome |-> outcome])]
    /\ hpc' = "complete"
    /\ UNCHANGED <<hnotice, hcall, hcancelled, hcerr, hresult, hb, beats, lateBeats,
                   completes, requests>>
    /\ UNCHANGED <<mainVars, clientVars, listenVars, chanVars, envVars>>

\* ForLifecycleAction: err := f(ctx, notice), f being WaitForServiceStart for
\* a LaunchNotice and WaitForServiceStop for a TerminationNotice.
ForLifecycleActionRun ==
    /\ hpc = "f"
    /\ \E outcome \in ServiceOutcomes :
           IF hnotice[hcall].type = "launch"
           THEN /\ herr' = IF WaitForServiceStart(outcome) THEN "action error" ELSE "nil"
                /\ actions' = [actions EXCEPT ![hcall] =
                                   Append(@, [action |-> "start", outcome |-> outcome])]
           ELSE /\ herr' = IF WaitForServiceStop(outcome) THEN "action error" ELSE "nil"
                /\ actions' = [actions EXCEPT ![hcall] =
                                   Append(@, [action |-> "stop", outcome |-> outcome])]
    /\ hpc' = "complete"
    /\ UNCHANGED <<hnotice, hcall, hcancelled, hcerr, hresult, hb, beats, lateBeats,
                   completes, requests>>
    /\ UNCHANGED <<mainVars, clientVars, listenVars, chanVars, envVars>>

\* ForLifecycleActionComplete, returning before the completion when f failed.
ForLifecycleActionCompleteUnlessFailed ==
    /\ hpc = "complete"
    /\ IF herr # "nil"
       THEN UNCHANGED <<requests, instanceIDCached, asgCached, completes, hcerr>>
       ELSE /\ \E idOK \in BOOLEAN, asgOK \in BOOLEAN, apiOK \in BOOLEAN :
                   LET r == CompleteLifecycleAction(hnotice[hcall], idOK, asgOK, apiOK) IN
                   /\ requests' = [requests EXCEPT ![hcall] = @ \o r.req]
                   /\ hcerr' = IF r.err THEN "completion error" ELSE "nil"
                   /\ instanceIDCached' = GetInstanceID(idOK)
                   /\ asgCached' = IF GetInstanceID(idOK)
                                   THEN GetAutoScalingGroupName(asgOK) ELSE asgCached
            /\ completes' = [completes EXCEPT ![hcall] = Bump(@)]
    /\ hpc' = "cancel"
    /\ UNCHANGED <<hnotice, hcall, hcancelled, herr, hresult, hb, actions, beats,
                   lateBeats>>
    /\ UNCHANGED <<mainVars, listenVars, chanVars, envVars>>

\* ForLifecycleAction: handler.Client.CompleteLifecycleAction(ctx, notice), its
\* error held in an `err` of the if statement's own scope and logged there.
ForLifecycleActionComplete ==
    /\ hpc = "complete"
    /\ \E idOK \in BOOLEAN, asgOK \in BOOLEAN, apiOK \in BOOLEAN :
           LET r == CompleteLifecycleAction(hnotice[hcall], idOK, asgOK, apiOK) IN
           /\ requests' = [requests EXCEPT ![hcall] = @ \o r.req]
           /\ hcerr' = IF r.err THEN "completion error" ELSE "nil"
           /\ instanceIDCached' = GetInstanceID(idOK)
           /\ asgCached' = IF GetInstanceID(idOK) THEN GetAutoScalingGroupName(asgOK)
                           ELSE asgCached
    /\ completes' = [completes EXCEPT ![hcall] = Bump(@)]
    /\ hpc' = "cancel"
    /\ UNCHANGED <<hnotice, hcall, hcancelled, herr, hresult, hb, actions, beats,
                   lateBeats>>
    /\ UNCHANGED <<mainVars, listenVars, chanVars, envVars>>

\* ForLifecycleAction: cancel(); return err
ForLifecycleActionReturn ==
    /\ hpc = "cancel"
    /\ hcancelled' = [hcancelled EXCEPT ![hcall] = TRUE]
    /\ hresult' = herr
    /\ hpc' = "returned"
    /\ UNCHANGED <<hnotice, hcall, herr, hcerr, hb, actions, beats, lateBeats, completes,
                   requests>>
    /\ UNCHANGED <<mainVars, clientVars, listenVars, chanVars, envVars>>

\* The heartbeat goroutine of call c: case <-ticker.C, SendHeartbeat. Its
\* errors are dropped. The select may take this case with ctx.Done() ready too.
HeartbeatTick(c) ==
    /\ hb[c] = "running"
    /\ beats' = [beats EXCEPT ![c] = Bump(@)]
    /\ lateBeats' = [lateBeats EXCEPT ![c] = IF completes[c] > 0 THEN Bump(@) ELSE @]
    /\ \E idOK \in BOOLEAN, asgOK \in BOOLEAN :
           /\ instanceIDCached' = GetInstanceID(idOK)
           /\ asgCached' = IF GetInstanceID(idOK) THEN GetAutoScalingGroupName(asgOK)
                           ELSE asgCached
    /\ UNCHANGED <<hpc, hnotice, hcall, hcancelled, herr, hcerr, hresult, hb, actions,
                   completes, requests>>
    /\ UNCHANGED <<mainVars, listenVars, chanVars, envVars>>

\* The heartbeat goroutine of call c: case <-ctx.Done(): return
HeartbeatDone(c) ==
    /\ hb[c] = "running"
    /\ HandlerCtxDone(c)
    /\ hb' = [hb EXCEPT ![c] = "stopped"]
    /\ UNCHANGED <<hpc, hnotice, hcall, hcancelled, herr, hcerr, hresult, actions, beats,
                   lateBeats, completes, requests>>
    /\ UNCHANGED <<mainVars, clientVars, listenVars, chanVars, envVars>>

\* ------------------------------------------------------------- cmd main

\* What a lifecycle hook's notification target is: an SQS queue whose URL
\* resolves, an SQS queue whose URL lookup fails, a target that is not SQS,
\* or an ARN that does not parse.
HookKinds == {"sqs", "sqs-nourl", "other", "badarn"}

\* The loop of GetLifecycleNoticeQueues over output.LifecycleHooks, from hook
\* i on: "ok" (the loop ends), "error" (it returns an error) or "panic" (it
\* stores into `queues`, a nil map).
RECURSIVE ScanHooks(_)
ScanHooks(i) ==
    IF i > Len(hooks) THEN "ok"
    ELSE IF hooks[i] = "badarn" THEN "error"
    ELSE IF hooks[i] = "other" THEN ScanHooks(i + 1)
    ELSE IF hooks[i] = "sqs-nourl" THEN "error"
    ELSE "panic"

\* GetLifecycleNoticeQueues: "ok" (no queue), "error" or "panic". descOK:
\* DescribeLifecycleHooks succeeds.
GetLifecycleNoticeQueues(asgOK, descOK) ==
    IF ~GetAutoScalingGroupName(asgOK) THEN "error"
    ELSE IF ~descOK THEN "error"
    ELSE ScanHooks(1)

\* main, up to the dispatch loop: the queues are discovered, and one Listen
\* goroutine is started per listener, the SpotListener and one per queue.
MainStart ==
    /\ mpc = "start"
    /\ \E asgOK \in BOOLEAN, descOK \in BOOLEAN :
           LET r == GetLifecycleNoticeQueues(asgOK, descOK) IN
           /\ asgCached' = GetAutoScalingGroupName(asgOK)
           /\ IF r = "ok"
              THEN /\ mpc' = "loop"
                   /\ listeners' = {SpotSource}
                   /\ lpc' = [lpc EXCEPT ![SpotSource] = "select"]
              ELSE /\ mpc' = IF r = "panic" THEN "panic" ELSE "fatal"
                   /\ UNCHANGED <<listeners, lpc>>
    /\ UNCHANGED <<hooks, sigBuf, interrupted, ctxDone, instanceIDCached, lnotice, lchan,
                   lresult, ldelivered, ticks, chanVars, envVars, handleVars>>

\* main: for ctx.Err() != nil { select ... }; past the loop, group.Wait()
MainLoopTest ==
    /\ mpc = "loop"
    /\ IF ctxDone
       THEN mpc' = "select" /\ receiving' = TRUE
       ELSE mpc' = "wait" /\ UNCHANGED receiving
    /\ UNCHANGED <<hooks, sigBuf, interrupted, ctxDone, clientVars, listenVars, rnotice,
                   envVars, handleVars>>

\* main: case notice = <-notices, the call of handler.Handle(ctx, notice)
MainHandle ==
    /\ mpc = "handle"
    /\ Handle(rnotice)
    /\ mpc' = "handling"
    /\ UNCHANGED <<hooks, sigBuf, interrupted, ctxDone, clientVars, listenVars, chanVars,
                   envVars>>

\* main: Handle has returned; its error is logged with notice.Type(), which
\* panics on a nil Notice, and the loop goes on
MainHandled ==
    /\ mpc = "handling"
    /\ hpc = "returned"
    /\ mpc' = IF hresult # "nil" /\ rnotice = Nil THEN "panic" ELSE "loop"
    /\ UNCHANGED <<hooks, sigBuf, interrupted, ctxDone, clientVars, listenVars, chanVars,
                   envVars, handleVars>>

\* main: case <-signals: cancel()
MainSignal ==
    /\ mpc = "select"
    /\ sigBuf > 0
    /\ sigBuf' = 0
    /\ receiving' = FALSE
    /\ ctxDone' = TRUE
    /\ mpc' = "loop"
    /\ UNCHANGED <<hooks, interrupted, clientVars, listenVars, rnotice, envVars,
                   handleVars>>

\* main: group.Wait() returns once every Listen has; the group's context is
\* cancelled; a Listen error is fatal.
MainWait ==
    /\ mpc = "wait"
    /\ \A s \in listeners : lpc[s] = "returned"
    /\ ctxDone' = TRUE
    /\ mpc' = IF \E s \in listeners : lresult[s] # "nil" THEN "fatal" ELSE "exit"
    /\ UNCHANGED <<hooks, sigBuf, interrupted, clientVars, listenVars, chanVars, envVars,
                   handleVars>>

\* The process is running.
Running == mpc \notin {"panic", "fatal", "exit"}

\* An os.Interrupt reaches the process: signal.Notify sends it to `signals`
\* without blocking, so it is dropped when the buffer is full.
Interrupt ==
    /\ Running
    /\ ~interrupted \/ sigBuf = 0
    /\ interrupted' = TRUE
    /\ sigBuf' = 1
    /\ UNCHANGED <<mpc, hooks, ctxDone, clientVars, listenVars, chanVars, envVars, handleVars>>

\* Handle called by any caller with notice n.
HandleCall(n) ==
    /\ Handle(n)
    /\ UNCHANGED <<mainVars, clientVars, listenVars, chanVars, envVars>>

\* -------------------------------------------------------- specifications

\* What every specification starts from, but for what it sets itself.
InitCommon ==
    /\ sigBuf = 0
    /\ interrupted = FALSE
    /\ ctxDone = FALSE
    /\ lnotice = [s \in Sources |-> Nil]
    /\ lchan = [s \in Sources |-> FALSE]
    /\ lresult = [s \in Sources |-> "none"]
    /\ ldelivered = [s \in Sources |-> FALSE]
    /\ ticks = 0
    /\ receiving = FALSE
    /\ rnotice = Nil
    /\ spotTime = 0
    /\ msgs = <<>>
    /\ queue = [q \in QueueSources |-> {}]
    /\ deleted = {}
    /\ emitted = [m \in 1..MaxMsgs |-> 0]
    /\ hpc = "idle"
    /\ hnotice = [c \in Calls |-> Nil]
    /\ hcall = 0
    /\ hcancelled = [c \in Calls |-> FALSE]
    /\ herr = "nil"
    /\ hcerr = "nil"
    /\ hresult = "nil"
    /\ hb = [c \in Calls |-> "none"]
    /\ actions = [c \in Calls |-> <<>>]
    /\ beats = [c \in Calls |-> 0]
    /\ lateBeats = [c \in Calls |-> 0]
    /\ completes = [c \in Calls |-> 0]
    /\ requests = [c \in Calls |-> <<>>]

\* The program: main() starts with a fresh client and no listener; the auto
\* scaling group has any hooks.
Init ==
    /\ InitCommon
    /\ mpc = "start"
    /\ hooks \in UNION {[1..k -> HookKinds] : k \in 0..MaxHooks}
    /\ instanceIDCached = FALSE
    /\ asgCached = FALSE
    /\ listeners = {}
    /\ lpc = [s \in Sources |-> "idle"]

Next ==
    \/ MainStart
    \/ MainLoopTest
    \/ MainHandle
    \/ MainHandled
    \/ MainSignal
    \/ MainWait
    \/ Interrupt
    \/ SpotAnnounced
    \/ SpotListenTick
    \/ \E s \in listeners : ListenSend(s) \/ ListenDone(s)
    \/ HandleSpot
    \/ ForLifecycleActionRun
    \/ ForLifecycleActionComplete
    \/ ForLifecycleActionReturn
    \/ \E c \in Calls : HeartbeatTick(c) \/ HeartbeatDone(c)

Spec == Init /\ [][Next]_vars

\* The steps of Next the program can take: the others are never enabled,
\* which TLC confirms as the property LiveSteps of Spec.
LiveNext ==
    \/ MainStart
    \/ MainLoopTest
    \/ Interrupt
    \/ SpotAnnounced
    \/ SpotListenTick

LiveSpec == Init /\ [][LiveNext]_vars

LiveSteps == [][LiveNext]_vars

\* The program under the fairness Go's scheduler and runtime give it: main
\* runs when it can, and the time.Ticker of the SpotListener keeps firing.
\* Nothing is assumed of the environment (interrupts, spot announcements).
FairSpec ==
    /\ Init /\ [][LiveNext]_vars
    /\ WF_vars(MainStart)
    /\ WF_vars(MainLoopTest)
    /\ WF_vars(SpotListenTick)

\* The Listen methods, each started on a shared Notices channel and a shared
\* context, with a client that may or may not have cached its identity.
ListenInit ==
    /\ InitCommon
    /\ mpc = "caller"
    /\ hooks = <<>>
    /\ instanceIDCached = FALSE
    /\ asgCached = FALSE
    /\ listeners = Sources
    /\ lpc = [s \in Sources |-> "select"]

ListenNext ==
    \/ \E s \in Sources : ListenSend(s) \/ ListenDone(s)
    \/ SpotListenTick
    \/ \E q \in QueueSources : LifecycleListenDefault(q) \/ Enqueue(q)
    \/ SpotAnnounced
    \/ ReceiverWaits
    \/ Cancel

ListenSpec == ListenInit /\ [][ListenNext]_vars

\* Listen under the fairness of Go's select, which picks among its ready
\* cases at random: a case that stays ready is taken in the end.
ListenFairSpec ==
    /\ ListenInit /\ [][ListenNext]_vars
    /\ \A s \in Sources : WF_vars(ListenDone(s))

\* The notices Handle is called with.
HandleNotices ==
    {Nil, NewSpotNotice(1), NewLaunchNotice(LaunchQueue, 1),
     NewTerminationNotice("termination-q", 1)}

\* Handle, called by any caller that waits for it to return before it calls
\* again, with a context that may be cancelled at any time.
HandleInit ==
    /\ InitCommon
    /\ mpc = "caller"
    /\ hooks = <<>>
    /\ instanceIDCached \in BOOLEAN
    /\ asgCached \in BOOLEAN
    /\ listeners = {}
    /\ lpc = [s \in Sources |-> "idle"]

HandleNext ==
    \/ \E n \in HandleNotices : HandleCall(n)
    \/ HandleSpot
    \/ ForLifecycleActionRun
    \/ ForLifecycleActionComplete
    \/ ForLifecycleActionReturn
    \/ \E c \in Calls : HeartbeatTick(c) \/ HeartbeatDone(c)
    \/ Cancel

HandleSpec == HandleInit /\ [][HandleNext]_vars

\* ---------------------------------------------------------------- claims

\* Call c of Handle has returned.
Returned(c) == c < hcall \/ (c = hcall /\ hpc = "returned")

\* The request CompleteLifecycleAction sends for notice n.
ContinueRequest(n) == [hook |-> n.hook, token |-> n.token, result |-> "CONTINUE"]

\* C2: every Handle call on a Launch or Termination Notice invokes
\* CompleteLifecycleAction exactly once, none before f has run and one from
\* then on, whether f failed or not; a request it sends carries the Notice's
\* hook name and action token and the result CONTINUE.
C2_CompletesExactlyOnce ==
    \A c \in 1..hcall :
        IsLifecycle(hnotice[c]) =>
            /\ completes[c] = IF c = hcall /\ hpc \in {"f", "complete"} THEN 0 ELSE 1
            /\ Len(requests[c]) <= completes[c]
            /\ \A i \in 1..Len(requests[c]) : requests[c][i] = ContinueRequest(hnotice[c])

\* A Launch call whose start action failed has returned, its one completion sent.
C2_Witness ==
    /\ hcall >= 1
    /\ hpc = "returned"
    /\ hnotice[hcall].type = "launch"
    /\ hresult = "action error"
    /\ completes[hcall] = 1
    /\ requests[hcall] = <<ContinueRequest(hnotice[hcall])>>

\* C3: for a Launch or Termination Notice no SendHeartbeat call is made once
\* CompleteLifecycleAction has been called.
C3_NoHeartbeatAfterCompletion ==
    \A c \in Calls : lateBeats[c] = 0

\* Source s holds a Notice the receiver has not accepted.
Pending(s) == lpc[s] = "select" /\ lnotice[s] # Nil /\ ~ldelivered[s]

\* Source s polls: GetSpotNotice or GetLifecycleNotice is called.
Polls(s) == IF s = SpotSource THEN SpotListenTick ELSE LifecycleListenDefault(s)

\* C4: while a source holds a Notice that has not been accepted it does not
\* poll again, and the Notice stays as it is.
C4_PendingIsKept ==
    [][\A s \in Sources : Pending(s) => (~Polls(s) /\ lnotice'[s] = lnotice[s])]_vars

\* Source s offers a Notice on the channel.
Offers(s) == lpc[s] = "select" /\ ChanEnabled(s) /\ lnotice[s] # Nil

\* C5: a Notice a source offers is in the end passed to Handle, unless a
\* shutdown is requested.
C5_OfferedIsHandled ==
    \A s \in Sources : Offers(s) ~> (hcall > 0 \/ interrupted)

\* Source q holds the Notice built from message m.
Holds(q, m) == Pending(q) /\ lnotice[q].token = m

\* C6: a message for another instance is not deleted and no Notice is sent
\* for it; a message for this instance that was deleted has exactly one
\* Notice, sent or held to be sent. The messages are those of a lifecycle
\* hook, whose transition is a launch or a termination.
C6_FilteredByInstance ==
    \A m \in 1..Len(msgs) :
        msgs[m].transition # OtherTransition =>
            /\ msgs[m].instance # Me => (m \notin deleted /\ emitted[m] = 0)
            /\ (msgs[m].instance = Me /\ m \in deleted) =>
                   emitted[m] + (IF Holds(msgs[m].queue, m) THEN 1 ELSE 0) = 1

\* C7: a Handle call on a Spot-Termination Notice makes no SendHeartbeat and
\* no CompleteLifecycleAction call and starts no heartbeat goroutine; it runs
\* stop-service, once, and returns what that returned.
C7_SpotHasNoHookProtocol ==
    \A c \in 1..hcall :
        hnotice[c].type = "spot" =>
            /\ beats[c] = 0 /\ completes[c] = 0 /\ requests[c] = <<>> /\ hb[c] = "none"
            /\ \A i \in 1..Len(actions[c]) : actions[c][i].action = "stop"
            /\ Len(actions[c]) = IF Returned(c) THEN 1 ELSE 0
            /\ (c = hcall /\ hpc = "returned") =>
                   hresult = IF WaitForServiceStop(actions[c][1].outcome)
                             THEN "action error" ELSE "nil"

\* A Spot call has returned the failure of stop-service.
C7_Witness ==
    /\ hcall >= 1
    /\ hpc = "returned"
    /\ hnotice[hcall].type = "spot"
    /\ Len(actions[hcall]) = 1
    /\ hresult = "action error"

\* C8: once an interrupt has reached the running program, the shared context
\* is cancelled, every Listen returns and main leaves group.Wait and exits.
C8_InterruptShutsDown ==
    (interrupted /\ listeners # {}) ~>
        (ctxDone /\ (\A s \in listeners : lpc[s] = "returned") /\ mpc = "exit")

\* C9: once the Notice of a source has been accepted it is not offered again,
\* unless a later poll detects it again.
C9_AcceptedIsCleared ==
    \A s \in Sources : (lpc[s] = "select" /\ ldelivered[s]) => ~ChanEnabled(s)

\* C10: once the context is cancelled every Listen returns, and a Listen that
\* returned has returned no error.
C10_CancelledListenReturns ==
    /\ ctxDone ~> (\A s \in Sources : lpc[s] = "returned")
    /\ [](\A s \in Sources : lpc[s] = "returned" => lresult[s] = "nil")

\* Both listeners have returned nil after the cancellation, the SpotListener
\* with a Notice still pending and the LifecycleListener with none.
C10_Witness ==
    /\ ctxDone
    /\ \A s \in Sources : lpc[s] = "returned" /\ lresult[s] = "nil"
    /\ lnotice[SpotSource] # Nil /\ ~ldelivered[SpotSource]
    /\ lnotice[LaunchQueue] = Nil

\* A poll of source s fails: GetSpotNotice or GetLifecycleNotice returns an error.
PollFails(s) ==
    IF s = SpotSource
    THEN \E fault \in {"error", "malformed"} :
             GetSpotNotice(fault).err /\ SpotPoll(fault)
    ELSE \E idOK \in BOOLEAN, recvOK \in BOOLEAN, delOK \in BOOLEAN,
            batch \in Batches(queue[s]) :
             /\ GetLifecycleNotice(idOK, recvOK, batch, delOK).err
             /\ LifecyclePoll(s, idOK, recvOK, delOK, batch)

\* C12: a poll that fails does not terminate the source, which stays in its
\* loop to poll again, and counts as "no notice": after it the source has
\* nothing to send, its send case is not enabled.
C12_FailedPollIsNoNotice ==
    [][\A s \in Sources : PollFails(s) => (lpc'[s] = "select" /\ ~ChanEnabled(s)')]_vars

\* The last Handle call has returned, and it was on a Launch or Termination Notice.
LifecycleReturned == hcall >= 1 /\ hpc = "returned" /\ IsLifecycle(hnotice[hcall])

\* The service action of call c failed: the job could not be run, or it ran
\* and did not end as "done".
ActionFailed(c) == Len(actions[c]) = 1 /\ actions[c][1].outcome # "done"

\* C13: when CompleteLifecycleAction fails in a Handle call on a Launch or
\* Termination Notice, that failure is what Handle returns. The calls looked
\* at are those whose action did not fail, which have no other error to return.
C13_CompletionFailureReturned ==
    (LifecycleReturned /\ hcerr # "nil" /\ ~ActionFailed(hcall)) => hresult = hcerr

\* C14: when start-service or stop-service fails in a Handle call on a Launch
\* or Termination Notice, CompleteLifecycleAction is still called, once and
\* with the result CONTINUE, and Handle returns the failure of the action.
C14_ActionFailureReturned ==
    (LifecycleReturned /\ ActionFailed(hcall)) =>
        /\ completes[hcall] = 1
        /\ \A i \in 1..Len(requests[hcall]) : requests[hcall][i].result = "CONTINUE"
        /\ hresult = "action error"

\* Call c of Handle has run its service action.
ActionRun(c) == Returned(c) \/ (c = hcall /\ hpc \in {"complete", "cancel"})

\* C15: Handle picks the action by the Notice's variant, stop-service for a
\* Spot-Termination or a Termination Notice and start-service for a Launch
\* Notice, and runs it once in the call; the heartbeat goroutine, SendHeartbeat
\* and CompleteLifecycleAction are used for Launch and Termination Notices and
\* for no other.
C15_ActionByVariant ==
    \A c \in 1..hcall :
        LET n == hnotice[c] IN
        /\ \A i \in 1..Len(actions[c]) :
               actions[c][i].action = IF n.type = "launch" THEN "start" ELSE "stop"
        /\ Len(actions[c]) = IF n # Nil /\ ActionRun(c) THEN 1 ELSE 0
        /\ hb[c] # "none" <=> IsLifecycle(n)
        /\ ~IsLifecycle(n) => (beats[c] = 0 /\ completes[c] = 0)
        /\ (IsLifecycle(n) /\ Returned(c)) => completes[c] = 1

\* A Termination call has returned: it ran stop-service, had a heartbeat
\* goroutine that sent a heartbeat, and called CompleteLifecycleAction.
C15_Witness ==
    /\ LifecycleReturned
    /\ hnotice[hcall].type = "termination"
    /\ Len(actions[hcall]) = 1 /\ actions[hcall][1].action = "stop"
    /\ hb[hcall] # "none" /\ beats[hcall] > 0
    /\ completes[hcall] = 1

\* C16: when a Handle call on a Launch or Termination Notice has returned,
\* its heartbeat goroutine has been told to stop, by cancel(), and has
\* stopped: none is left running for the next call.
C16_HeartbeatJoined ==
    \A c \in 1..hcall :
        (IsLifecycle(hnotice[c]) /\ Returned(c)) => (hcancelled[c] /\ hb[c] = "stopped")

\* C17: the heartbeat goroutine of a call stops only on the call's own
\* cancel(): one that has stopped had its cancel() called, and while the
\* action runs it goes on, whether the context passed to Handle is cancelled
\* or not.
C17_StoppedByOwnCancelOnly ==
    \A c \in 1..hcall :
        /\ hb[c] = "stopped" => hcancelled[c]
        /\ (c = hcall /\ hpc = "f") => hb[c] = "running"

\* The Notices built from queue messages: those the queue sources hold and
\* the one last received from the channel.
QueueNotices == {n \in {lnotice[q] : q \in QueueSources} \cup {rnotice} : IsLifecycle(n)}

\* C19, as first stated: the variant of the Notice a queue source holds is
\* the one of its queue's Action, a Launch Notice for a launch hook's queue
\* and a Termination Notice for a termination hook's.
C19_VariantByQueueAction ==
    \A q \in QueueSources :
        lnotice[q] # Nil =>
            lnotice[q].type = IF QueueAction(q) = LaunchLifecycleAction
                              THEN "launch" ELSE "termination"

\* C19, amended: the variant of a Notice built from a queue message is the
\* one of the message's own LifecycleTransition, a Launch Notice for a
\* launching and a Termination Notice for a terminating, whatever the Action
\* of the queue; it carries the message's hook name and token.
C19_VariantByMessage ==
    \A n \in QueueNotices :
        LET m == msgs[n.token] IN
        /\ n.type = "launch" <=> m.transition = LaunchLifecycleAction
        /\ n.type = "termination" <=> m.transition = TerminationLifecycleAction
        /\ n.hook = m.hook

\* The source of the launch hook's queue holds a Termination Notice, built
\* from a terminating message for this instance.
C19_Witness ==
    /\ Pending(LaunchQueue)
    /\ lnotice[LaunchQueue].type = "termination"
    /\ msgs[lnotice[LaunchQueue].token].transition = TerminationLifecycleAction
    /\ lnotice[LaunchQueue].token \in deleted

\* C20: every value a source sends on the Notices channel is a Notice, a
\* Spot, Launch or Termination one; none sends the nil Notice, so that no
\* receiver is handed one.
C20_NeverSendsNil ==
    [][\A s \in Sources : ListenSend(s) => (lnotice[s] # Nil /\ rnotice' # Nil)]_vars

====
